---- MODULE Spec2Model ----
(***************************************************************************)
(* Model of the utilities of gen-quiz-bot: the client-side cache (the Cache *)
(* class, its three singleton instances and the browser's localStorage     *)
(* they share) and the text chunker (chunkText and its helpers).           *)
(***************************************************************************)
EXTENDS Integers, Sequences, FiniteSets, TLC

(* ------------------------------ bounds -------------------------------- *)

\* The clock Date.now() runs over 0..MaxTime.
MaxTime == 2

\* options.maxEntries of every instance (100 in the source, scaled down).
MaxEntries == 2

\* Cache keys the callers use.
Keys == {"k1", "k2", "k3"}

\* Payloads the callers store.  "NaN" is a value JSON cannot represent.
Payloads == {"v1", "v2", "NaN"}

\* customTtl arguments: 0 stands for an omitted (or zero) argument.
CustomTtls == {0, 2, -1}

\* Concurrent getOrSet calls in flight.
CallIds == {1, 2}

\* Texts given to chunkText have at most MaxLen characters, drawn from Chars.
MaxLen == 5

Chars == {"a", ".", " "}

\* The shorter texts of the calls that run under fairness.
MaxShortLen == 3

\* The cap of the chunking loop (100 in the source, scaled down).
ChunkCap == 3

\* The options given to chunkText.
MaxWordsOpts == {0, 1, 2}
MaxCharsOpts == {0, 1, 4}
OverlapOpts == {-1, 0, 1}

(* ------------------------------ values -------------------------------- *)

\* JavaScript null: the payload JSON writes for NaN, and get's "absent".
Null == "null"

\* The rejection a failing generator produces.
GeneratorError == "generatorError"

Caches == {"quizCache", "pdfCache", "apiCache"}

\* The options of the singleton instances (ttl scaled to the model clock).
Options ==
  [quizCache |-> [ttl |-> 1, maxEntries |-> MaxEntries, storage |-> "localStorage"],
   pdfCache  |-> [ttl |-> 2, maxEntries |-> MaxEntries, storage |-> "localStorage"],
   apiCache  |-> [ttl |-> 1, maxEntries |-> MaxEntries, storage |-> "memory"]]

\* `cache_${key}`: the name an entry is stored under in localStorage.
StorageKey(key) == <<"cache_", key>>

\* key.startsWith('cache_')
StartsWithCache(sk) == sk[1] = "cache_"

\* A localStorage name that does not belong to any cache.
ForeignKey == <<"theme_", "ui">>

StorageKeys == {StorageKey(k) : k \in Keys} \cup {ForeignKey}

NoEntry == [kind |-> "none"]
NoItem == [kind |-> "none"]
CorruptItem == [kind |-> "corrupt"]
ForeignItem == [kind |-> "foreign"]

\* What JSON.stringify / JSON.parse make of a payload: NaN becomes null.
JSONValue(v) == IF v = "NaN" THEN Null ELSE v

\* new CacheEntry { data, timestamp, expiresAt, key }
CacheEntry(data, timestamp, expiresAt, key) ==
  [kind |-> "entry", data |-> data, timestamp |-> timestamp,
   expiresAt |-> expiresAt, key |-> key]

\* JSON.stringify(entry): the stored string, with the payload as JSON has it.
JSONStringify(entry) ==
  [kind |-> "json", data |-> JSONValue(entry.data), timestamp |-> entry.timestamp,
   expiresAt |-> entry.expiresAt, key |-> entry.key]

\* JSON.parse throws on this item.
ParseThrows(item) == item.kind \in {"corrupt", "foreign"}

\* JSON.parse(item) of an item it accepts.
JSONParse(item) ==
  CacheEntry(item.data, item.timestamp, item.expiresAt, item.key)

(* ------------------------------- state -------------------------------- *)

VARIABLES
  localStorage,  \* the browser store shared by every instance: name -> item
  memoryCache,   \* per instance, its Map as the sequence of entries in insertion order
  now,           \* Date.now()
  calls,         \* the getOrSet calls: where each is, its arguments while it
                 \* awaits, and what it returned
  last,          \* history: the synchronous operation that ran last
  setCalled,     \* history: the <<instance, key>> pairs set was called with
  older,         \* history: per instance, the pairs <<a, b>> of keys now in its
                 \* Map such that a has been in the cache since before b came in
  chunker,       \* the call of chunkText: its arguments, cleanText, the loop's
                 \* currentIndex and chunks, and where the call is
  dedup,         \* the call of deduplicateChunks: its argument and what it returned
  pdfKeys,       \* the calls of createPdfKey made so far: arguments and key
  app            \* the Index page: its React state and the calls of its
                 \* handlers that are suspended at an await

vars ==
  <<localStorage, memoryCache, now, calls, last, setCalled, older, chunker,
    dedup, pdfKeys, app>>

\* racing (history): this call resolved while the other call, which had missed
\* the same key of the same instance, was still awaiting its generator.
IdleCall ==
  [pc |-> "idle", c |-> "apiCache", key |-> "k1", customTtl |-> 0,
   ret |-> Null, invoked |-> 0, racing |-> FALSE]

\* last: op, c, key name the operation and ret is what it returned.  data,
\* positiveTtl, expiresAt and writeFailed are those of a set (writeFailed:
\* setItem threw); the get that follows a set at once on the same instance and
\* key keeps them and sets afterSet.  found is what the lookup of a get met.
\* swept and spared are those of a cleanup: it removed something, and it left
\* an entry in the store it swept.
NoOp ==
  [op |-> "none", c |-> "apiCache", key |-> "k1", data |-> Null, ret |-> Null,
   found |-> "none", writeFailed |-> FALSE, positiveTtl |-> FALSE,
   expiresAt |-> 0, afterSet |-> FALSE, swept |-> FALSE, spared |-> FALSE]

\* No call of chunkText has been made.
IdleChunker ==
  [pc |-> "idle", text |-> <<>>, options |-> <<>>, cleanText |-> <<>>,
   currentIndex |-> 0, chunks |-> <<>>]

\* No call of deduplicateChunks has been made.
IdleDedup == [pc |-> "idle", chunks |-> <<>>, deduplicated |-> <<>>]

\* The calls of handleFileUpload and of handleGenerateQuiz that can be
\* suspended at the same time.
UploadIds == {1, 2}
QuizIds == {1}

\* The Index page as mounted: the useState defaults, no handler running.
\* uploads and quizzes hold, per call, the await it is suspended at (and the
\* file an upload was called with); started
\* counts the calls of the two handlers; restarted (history) says that
\* handleRestart has run and handleFileUpload has not been called since.
InitialApp ==
  [appState |-> "upload", isProcessing |-> FALSE, currentFile |-> Null,
   parsedPDF |-> Null, messages |-> <<>>, quizQuestions |-> <<>>,
   processingStage |-> "uploading", progress |-> 0,
   uploads |-> [i \in UploadIds |-> [pc |-> "idle", file |-> Null]],
   quizzes |-> [j \in QuizIds |-> "idle"],
   started |-> 0, restarted |-> FALSE]

Init ==
  /\ localStorage = [sk \in StorageKeys |->
                       IF sk = ForeignKey THEN ForeignItem ELSE NoItem]
  /\ memoryCache = [c \in Caches |-> <<>>]
  /\ now = 0
  /\ calls = [i \in CallIds |-> IdleCall]
  /\ last = NoOp
  /\ setCalled = {}
  /\ older = [c \in Caches |-> {}]
  /\ chunker = IdleChunker
  /\ dedup = IdleDedup
  /\ pdfKeys = <<>>
  /\ app = InitialApp

(* ------------------------- the Map of an instance ---------------------- *)

MapHas(m, key) == \E i \in 1..Len(m) : m[i].key = key

\* Map.get(key) || null
MapGet(m, key) ==
  IF MapHas(m, key)
    THEN m[CHOOSE i \in 1..Len(m) : m[i].key = key]
    ELSE NoEntry

\* Map.delete(key)
MapDelete(m, key) == SelectSeq(m, LAMBDA e : e.key # key)

\* Map.set(key, entry): a key already present keeps its place in the order.
MapSet(m, key, entry) ==
  IF MapHas(m, key)
    THEN [i \in 1..Len(m) |-> IF m[i].key = key THEN entry ELSE m[i]]
    ELSE Append(m, entry)

MapKeySet(m) == {m[i].key : i \in 1..Len(m)}

(* --------------------------- private methods --------------------------- *)

\* setInMemory(key, entry): at capacity the first key of the Map is deleted,
\* whether or not `key` is already present, and then the entry is set.
SetInMemory(m, maxEntries, key, entry) ==
  LET kept == IF Len(m) >= maxEntries /\ Len(m) > 0 THEN Tail(m) ELSE m
  IN  MapSet(kept, key, entry)

\* getFromLocalStorage(key): the parsed entry, or null when there is no item
\* or JSON.parse throws.
GetFromLocalStorage(ls, key) ==
  LET item == ls[StorageKey(key)]
  IN  IF item.kind = "none" \/ ParseThrows(item) THEN NoEntry ELSE JSONParse(item)

\* The entry get(key) looks at: from localStorage or from the Map, by options.storage.
Lookup(c, ls, mem, key) ==
  IF Options[c].storage = "localStorage"
    THEN GetFromLocalStorage(ls, key)
    ELSE MapGet(mem[c], key)

\* Mutant of Expired: the entry already counts as expired at its expiresAt.
ExpiredAtExpiresAt(entry, t) == t >= entry.expiresAt

\* Date.now() > entry.expiresAt
Expired(entry, t) == t > entry.expiresAt

\* What get(key) returns.
GetResult(c, ls, mem, t, key) ==
  LET entry == Lookup(c, ls, mem, key)
  IN  IF entry.kind = "none" THEN Null
      ELSE IF Expired(entry, t) THEN Null
      ELSE entry.data

\* localStorage after delete(key) of a localStorage instance.
RemoveItem(ls, sk) == [ls EXCEPT ![sk] = NoItem]

\* The stores after delete(key).
DeleteLS(c, ls, key) ==
  IF Options[c].storage = "localStorage" THEN RemoveItem(ls, StorageKey(key)) ELSE ls

DeleteMem(c, mem, key) ==
  IF Options[c].storage = "localStorage"
    THEN mem
    ELSE [mem EXCEPT ![c] = MapDelete(@, key)]

\* The stores after get(key): an expired entry is deleted by the read.
GetLS(c, ls, mem, t, key) ==
  LET entry == Lookup(c, ls, mem, key)
  IN  IF entry.kind # "none" /\ Expired(entry, t) THEN DeleteLS(c, ls, key) ELSE ls

GetMem(c, ls, mem, t, key) ==
  LET entry == Lookup(c, ls, mem, key)
  IN  IF entry.kind # "none" /\ Expired(entry, t) THEN DeleteMem(c, mem, key) ELSE mem

\* What the lookup of get(key) met.
Found(c, ls, mem, t, key) ==
  LET entry == Lookup(c, ls, mem, key)
  IN  IF entry.kind = "none"
        THEN IF Options[c].storage = "localStorage" /\ ls[StorageKey(key)].kind = "corrupt"
               THEN "corrupt" ELSE "none"
        ELSE IF Expired(entry, t) THEN "expired" ELSE "live"

\* customTtl || this.options.ttl
Ttl(c, customTtl) == IF customTtl # 0 THEN customTtl ELSE Options[c].ttl

\* The entry set(key, data, customTtl) builds.
NewEntry(c, t, key, data, customTtl) ==
  CacheEntry(data, t, t + Ttl(c, customTtl), key)

\* The stores after set(key, data, customTtl); throws says whether
\* localStorage.setItem throws (quota exceeded).
SetLS(c, ls, t, key, data, customTtl, throws) ==
  IF Options[c].storage = "localStorage" /\ ~throws
    THEN [ls EXCEPT ![StorageKey(key)] = JSONStringify(NewEntry(c, t, key, data, customTtl))]
    ELSE ls

\* Mutant of SetMem: a write that throws is dropped, without the fallback.
SetMemWithoutFallback(c, mem, t, key, data, customTtl, throws) ==
  IF Options[c].storage = "localStorage"
    THEN mem
    ELSE [mem EXCEPT ![c] = SetInMemory(@, Options[c].maxEntries, key,
                                        NewEntry(c, t, key, data, customTtl))]

SetMem(c, mem, t, key, data, customTtl, throws) ==
  IF Options[c].storage = "localStorage" /\ ~throws
    THEN mem
    ELSE [mem EXCEPT ![c] = SetInMemory(@, Options[c].maxEntries, key,
                                        NewEntry(c, t, key, data, customTtl))]

\* setItem can throw only on an instance that writes to localStorage.
CanThrow(c) == IF Options[c].storage = "localStorage" THEN BOOLEAN ELSE {FALSE}

\* getStats().size
GetStats(c, ls, mem) ==
  IF Options[c].storage = "localStorage"
    THEN Cardinality({sk \in DOMAIN ls : StartsWithCache(sk) /\ ls[sk].kind # "none"})
    ELSE Len(mem[c])

(* ------------------------------- history ------------------------------- *)

\* older after an operation on instance c that took its Map from m to n;
\* cameIn is the key a set brought in, or {} (a key set again while present
\* keeps its age).
OlderAfter(c, m, n, cameIn) ==
  LET kept == {p \in older[c] : p[1] \in MapKeySet(n) /\ p[2] \in MapKeySet(n)}
      new == cameIn \ MapKeySet(m)
  IN  [older EXCEPT ![c] =
         IF Options[c].storage = "memory"
           THEN kept \cup {<<a, b>> : a \in MapKeySet(n) \ new, b \in new}
           ELSE {}]

(* ------------------------------ operations ----------------------------- *)

\* set(key, data, customTtl)
Set(c, key, data, customTtl) ==
  \E throws \in CanThrow(c) :
    /\ localStorage' = SetLS(c, localStorage, now, key, data, customTtl, throws)
    /\ memoryCache' = SetMem(c, memoryCache, now, key, data, customTtl, throws)
    /\ last' = [NoOp EXCEPT !.op = "set", !.c = c, !.key = key, !.data = data,
                            !.writeFailed = throws,
                            !.positiveTtl = (Ttl(c, customTtl) > 0),
                            !.expiresAt = now + Ttl(c, customTtl)]
    /\ setCalled' = setCalled \cup {<<c, key>>}
    /\ older' = OlderAfter(c, memoryCache[c], memoryCache'[c], {key})
    /\ UNCHANGED <<now, calls, chunker>>
    /\ UNCHANGED <<dedup, pdfKeys, app>>

\* get(key)
Get(c, key) ==
  LET follows == last.op = "set" /\ last.c = c /\ last.key = key
  IN  /\ localStorage' = GetLS(c, localStorage, memoryCache, now, key)
      /\ memoryCache' = GetMem(c, localStorage, memoryCache, now, key)
      /\ last' = IF follows
                   THEN [last EXCEPT !.op = "get", !.afterSet = TRUE,
                           !.ret = GetResult(c, localStorage, memoryCache, now, key),
                           !.found = Found(c, localStorage, memoryCache, now, key)]
                   ELSE [NoOp EXCEPT !.op = "get", !.c = c, !.key = key,
                           !.ret = GetResult(c, localStorage, memoryCache, now, key),
                           !.found = Found(c, localStorage, memoryCache, now, key)]
      /\ older' = OlderAfter(c, memoryCache[c], memoryCache'[c], {})
      /\ UNCHANGED <<now, calls, setCalled, chunker>>
      /\ UNCHANGED <<dedup, pdfKeys, app>>

\* delete(key)
Delete(c, key) ==
  /\ localStorage' = DeleteLS(c, localStorage, key)
  /\ memoryCache' = DeleteMem(c, memoryCache, key)
  /\ last' = [NoOp EXCEPT !.op = "delete", !.c = c, !.key = key]
  /\ older' = OlderAfter(c, memoryCache[c], memoryCache'[c], {})
  /\ UNCHANGED <<now, calls, setCalled, chunker>>
  /\ UNCHANGED <<dedup, pdfKeys, app>>

\* clear(): a localStorage instance removes every name that starts with
\* 'cache_'; a memory instance empties its Map.
ClearLS(c, ls) ==
  IF Options[c].storage = "localStorage"
    THEN [sk \in DOMAIN ls |-> IF StartsWithCache(sk) THEN NoItem ELSE ls[sk]]
    ELSE ls

ClearMem(c, mem) ==
  IF Options[c].storage = "localStorage" THEN mem ELSE [mem EXCEPT ![c] = <<>>]

Clear(c) ==
  /\ localStorage' = ClearLS(c, localStorage)
  /\ memoryCache' = ClearMem(c, memoryCache)
  /\ last' = [NoOp EXCEPT !.op = "clear", !.c = c]
  /\ older' = OlderAfter(c, memoryCache[c], memoryCache'[c], {})
  /\ UNCHANGED <<now, calls, setCalled, chunker>>
  /\ UNCHANGED <<dedup, pdfKeys, app>>

\* Mutant of ExpiredBefore: the sweep also takes the entry that expires now.
ExpiredBeforeOrAt(entry, t) == entry.expiresAt <= t

\* entry.expiresAt < now
ExpiredBefore(entry, t) == entry.expiresAt < t

\* cleanup(), run by the interval timer of the constructor.
CleanupLS(c, ls, t) ==
  IF Options[c].storage = "localStorage"
    THEN [sk \in DOMAIN ls |->
            IF ~StartsWithCache(sk) \/ ls[sk].kind = "none" THEN ls[sk]
            ELSE IF ParseThrows(ls[sk]) THEN NoItem
            ELSE IF ExpiredBefore(JSONParse(ls[sk]), t) THEN NoItem
            ELSE ls[sk]]
    ELSE ls

CleanupMem(c, mem, t) ==
  IF Options[c].storage = "localStorage"
    THEN mem
    ELSE [mem EXCEPT ![c] = SelectSeq(@, LAMBDA e : ~ExpiredBefore(e, t))]

Cleanup(c) ==
  /\ localStorage' = CleanupLS(c, localStorage, now)
  /\ memoryCache' = CleanupMem(c, memoryCache, now)
  /\ last' = [NoOp EXCEPT !.op = "cleanup", !.c = c,
                          !.swept = (localStorage' # localStorage
                                       \/ memoryCache' # memoryCache),
                          !.spared = GetStats(c, localStorage', memoryCache') > 0]
  /\ older' = OlderAfter(c, memoryCache[c], memoryCache'[c], {})
  /\ UNCHANGED <<now, calls, setCalled, chunker>>
  /\ UNCHANGED <<dedup, pdfKeys, app>>

\* getOrSet(key, generator, customTtl) up to its await: the get, and on a miss
\* the call of generator().
GetOrSetCall(i, c, key, customTtl) ==
  LET cached == GetResult(c, localStorage, memoryCache, now, key)
  IN  /\ calls[i].pc # "awaiting"
      /\ localStorage' = GetLS(c, localStorage, memoryCache, now, key)
      /\ memoryCache' = GetMem(c, localStorage, memoryCache, now, key)
      /\ calls' = [calls EXCEPT ![i] =
                     [pc |-> IF cached # Null THEN "returned" ELSE "awaiting",
                      c |-> c, key |-> key,
                      customTtl |-> IF cached # Null THEN 0 ELSE customTtl,
                      ret |-> cached,
                      invoked |-> IF cached # Null THEN 0 ELSE 1,
                      racing |-> FALSE]]
      /\ last' = [NoOp EXCEPT !.op = "getOrSet"]
      /\ older' = OlderAfter(c, memoryCache[c], memoryCache'[c], {})
      /\ UNCHANGED <<now, setCalled, chunker>>
      /\ UNCHANGED <<dedup, pdfKeys, app>>

\* The other call is awaiting the generator of the same key of the same instance.
OtherAwaits(i) ==
  \E j \in DOMAIN calls \ {i} :
    calls[j].pc = "awaiting" /\ calls[j].c = calls[i].c /\ calls[j].key = calls[i].key

\* The calls once call i has settled as pc with ret.
Settled(i, pc, ret) ==
  [j \in DOMAIN calls |->
     IF j = i
       THEN [calls[i] EXCEPT !.pc = pc, !.ret = ret, !.customTtl = 0,
                             !.racing = (pc = "resolved" /\ OtherAwaits(i))]
       ELSE [calls[j] EXCEPT !.racing = FALSE]]

\* The generator's promise resolves with data: getOrSet sets it and returns it.
GeneratorResolve(i, data) ==
  /\ calls[i].pc = "awaiting"
  /\ \E throws \in CanThrow(calls[i].c) :
       /\ localStorage' = SetLS(calls[i].c, localStorage, now, calls[i].key, data,
                                calls[i].customTtl, throws)
       /\ memoryCache' = SetMem(calls[i].c, memoryCache, now, calls[i].key, data,
                                calls[i].customTtl, throws)
  /\ calls' = Settled(i, "resolved", data)
  /\ last' = [NoOp EXCEPT !.op = "getOrSet"]
  /\ setCalled' = setCalled \cup {<<calls[i].c, calls[i].key>>}
  /\ older' = OlderAfter(calls[i].c, memoryCache[calls[i].c],
                         memoryCache'[calls[i].c], {calls[i].key})
  /\ UNCHANGED <<now, chunker>>
  /\ UNCHANGED <<dedup, pdfKeys, app>>

\* Mutant of GeneratorReject: the failure is cached as a null payload.
GeneratorRejectCachesNull(i) ==
  /\ calls[i].pc = "awaiting"
  /\ localStorage' = SetLS(calls[i].c, localStorage, now, calls[i].key, Null,
                           calls[i].customTtl, FALSE)
  /\ memoryCache' = SetMem(calls[i].c, memoryCache, now, calls[i].key, Null,
                           calls[i].customTtl, FALSE)
  /\ calls' = Settled(i, "rejected", GeneratorError)
  /\ last' = [NoOp EXCEPT !.op = "getOrSet"]
  /\ UNCHANGED <<now, setCalled, older, chunker>>
  /\ UNCHANGED <<dedup, pdfKeys, app>>

\* The generator's promise rejects: the await throws out of getOrSet.
GeneratorReject(i) ==
  /\ calls[i].pc = "awaiting"
  /\ calls' = Settled(i, "rejected", GeneratorError)
  /\ last' = [NoOp EXCEPT !.op = "getOrSet"]
  /\ UNCHANGED <<localStorage, memoryCache, now, setCalled, older, chunker>>
  /\ UNCHANGED <<dedup, pdfKeys, app>>

\* get(key) when localStorage.getItem throws: getFromLocalStorage catches it
\* and returns null, and get returns null.
GetReadThrows(c, key) ==
  /\ Options[c].storage = "localStorage"
  /\ last' = [NoOp EXCEPT !.op = "get", !.c = c, !.key = key, !.ret = Null,
                          !.found = "readThrew"]
  /\ UNCHANGED <<localStorage, memoryCache, now, calls, setCalled, older, chunker>>
  /\ UNCHANGED <<dedup, pdfKeys, app>>

\* The item under a cache name is replaced, outside the Cache class, by a
\* string JSON.parse throws on.
StorageCorrupted(key) ==
  /\ localStorage' = [localStorage EXCEPT ![StorageKey(key)] = CorruptItem]
  /\ last' = NoOp
  /\ UNCHANGED <<memoryCache, now, calls, setCalled, older, chunker>>
  /\ UNCHANGED <<dedup, pdfKeys, app>>

\* Time passes.
Tick ==
  /\ now < MaxTime
  /\ now' = now + 1
  /\ UNCHANGED <<localStorage, memoryCache, calls, last, setCalled, older, chunker>>
  /\ UNCHANGED <<dedup, pdfKeys, app>>

\* The synchronous operations, on given instances, keys, payloads and ttls.
Sync(C, K, V, T) ==
  \/ \E c \in C, key \in K, data \in V, t \in T : Set(c, key, data, t)
  \/ \E c \in C, key \in K : Get(c, key)
  \/ \E c \in C, key \in K : Delete(c, key)
  \/ \E c \in C : Clear(c)
  \/ \E c \in C : Cleanup(c)

\* getOrSet calls and the settling of their generators.
Async(I, C, K, V, T) ==
  \/ \E i \in I, c \in C, key \in K, t \in T : GetOrSetCall(i, c, key, t)
  \/ \E i \in I, data \in V : GeneratorResolve(i, data)
  \/ \E i \in I : GeneratorReject(i)

\* One localStorage instance and the memory instance, one key.
Next ==
  \/ Sync({"quizCache", "apiCache"}, {"k1"}, {"v1", "NaN"}, {0, -1})
  \/ Tick

Spec == Init /\ [][Next]_vars

\* The memory instance alone, with more keys than maxEntries.
NextMemory ==
  \/ Sync({"apiCache"}, Keys, {"v1", "v2"}, {0})
  \/ Tick

SpecMemory == Init /\ [][NextMemory]_vars

\* One localStorage instance alone, with more keys than maxEntries.
NextPersistent ==
  \/ Sync({"quizCache"}, Keys, {"v1"}, {0})
  \/ Tick

SpecPersistent == Init /\ [][NextPersistent]_vars

\* The two instances that share localStorage.
NextShared ==
  \/ Sync({"quizCache", "pdfCache"}, {"k1"}, {"v1", "v2"}, {0})
  \/ Tick

SpecShared == Init /\ [][NextShared]_vars

\* Concurrent getOrSet calls for one key on both backends, among calls of set
\* for that key.
NextAsync ==
  \/ Async(CallIds, {"quizCache", "apiCache"}, {"k1"}, {"v1", "v2", Null}, {0, -1})
  \/ \E c \in {"quizCache", "apiCache"} : Set(c, "k1", "v1", 0)

SpecAsync == Init /\ [][NextAsync]_vars

\* The sweep among set, get, delete, clear and getOrSet on both backends: two
\* keys on the memory instance, one key, which can be corrupted, on a
\* localStorage instance.
NextSweep ==
  \/ Sync({"apiCache"}, {"k1", "k2"}, {"v1"}, {0})
  \/ Sync({"quizCache"}, {"k1"}, {"v1"}, {0})
  \/ Async({1}, {"quizCache", "apiCache"}, {"k1"}, {"v1"}, {0})
  \/ StorageCorrupted("k1")
  \/ Tick

SpecSweep == Init /\ [][NextSweep]_vars

\* One localStorage instance whose store fails: writes that throw, reads that
\* throw and items that do not parse.
NextFailure ==
  \/ Sync({"quizCache"}, {"k1"}, {"v1", "v2"}, {0})
  \/ GetReadThrows("quizCache", "k1")
  \/ StorageCorrupted("k1")
  \/ Tick

SpecFailure == Init /\ [][NextFailure]_vars

(* ----------------------------- text chunker --------------------------- *)

\* Strings are sequences of characters.  Positions in the text (currentIndex,
\* chunkEnd, startIndex, endIndex) are fractions in the source, since the
\* overlap is 0.3 of a length: they are kept in tenths of a character, and
\* Unit is one character.
Unit == 10

Min(a, b) == IF a <= b THEN a ELSE b

\* \s of the regular expressions.
IsSpace(ch) == ch \in {" ", "\n"}

\* [.!?] of sentenceEnders.
IsSentenceEnder(ch) == ch \in {".", "!", "?"}

RECURSIVE DropLeadingSpace(_)
DropLeadingSpace(s) ==
  IF s # <<>> /\ IsSpace(Head(s)) THEN DropLeadingSpace(Tail(s)) ELSE s

RECURSIVE DropTrailingSpace(_)
DropTrailingSpace(s) ==
  IF s # <<>> /\ IsSpace(s[Len(s)])
    THEN DropTrailingSpace(SubSeq(s, 1, Len(s) - 1))
    ELSE s

\* s.trim()
Trim(s) == DropTrailingSpace(DropLeadingSpace(s))

\* s.replace(/\s+/g, ' ')
RECURSIVE CollapseSpace(_)
CollapseSpace(s) ==
  IF s = <<>> THEN <<>>
  ELSE IF IsSpace(Head(s)) THEN <<" ">> \o CollapseSpace(DropLeadingSpace(s))
  ELSE <<Head(s)>> \o CollapseSpace(Tail(s))

\* The number of "\n" s starts with.
RECURSIVE LeadingNewlines(_)
LeadingNewlines(s) ==
  IF s # <<>> /\ Head(s) = "\n" THEN 1 + LeadingNewlines(Tail(s)) ELSE 0

\* s.replace(/\n{3,}/g, '\n\n')
RECURSIVE CollapseNewlines(_)
CollapseNewlines(s) ==
  IF s = <<>> THEN <<>>
  ELSE IF LeadingNewlines(s) >= 3
    THEN <<"\n", "\n">> \o CollapseNewlines(SubSeq(s, LeadingNewlines(s) + 1, Len(s)))
  ELSE IF LeadingNewlines(s) > 0
    THEN SubSeq(s, 1, LeadingNewlines(s))
           \o CollapseNewlines(SubSeq(s, LeadingNewlines(s) + 1, Len(s)))
  ELSE <<Head(s)>> \o CollapseNewlines(Tail(s))

\* Mutant of CleanText: the trim is missing.
CleanTextUntrimmed(text) == CollapseNewlines(CollapseSpace(text))

\* cleanText
CleanText(text) == Trim(CollapseNewlines(CollapseSpace(text)))

\* s.split(/\s+/): the pieces between the runs of whitespace; a string that
\* starts or ends with whitespace has an empty first or last piece.
RECURSIVE Split(_)
Split(s) ==
  IF \E p \in 1..Len(s) : IsSpace(s[p])
    THEN LET first == CHOOSE p \in 1..Len(s) :
                        IsSpace(s[p]) /\ \A q \in 1..(p - 1) : ~IsSpace(s[q])
         IN  <<SubSeq(s, 1, first - 1)>>
               \o Split(DropLeadingSpace(SubSeq(s, first, Len(s))))
    ELSE <<s>>

\* words.join(' ')
RECURSIVE Join(_)
Join(words) ==
  IF words = <<>> THEN <<>>
  ELSE IF Len(words) = 1 THEN words[1]
  ELSE words[1] \o <<" ">> \o Join(Tail(words))

\* s.substring(from, to): both positions are truncated to whole characters and
\* clamped to the string, and swapped when from is after to.
Substring(s, from, to) ==
  LET clamp(x) == IF x < 0 THEN 0 ELSE Min(x \div Unit, Len(s))
      lo == Min(clamp(from), clamp(to))
      hi == IF clamp(from) <= clamp(to) THEN clamp(to) ELSE clamp(from)
  IN  SubSeq(s, lo + 1, hi)

\* findLastSentenceEnd(text): the end of the last match of /[.!?]+\s/g, or
\* text.length when there is none.
FindLastSentenceEnd(text) ==
  LET ends == {p \in 2..Len(text) : IsSpace(text[p]) /\ IsSentenceEnder(text[p - 1])}
  IN  IF ends # {} THEN CHOOSE p \in ends : \A q \in ends : q <= p ELSE Len(text)

\* findLastParagraphEnd(text): past the last '\n\n', unless there is none or
\* it is at index 0.
FindLastParagraphEnd(text) ==
  LET at == {p \in 1..(Len(text) - 1) : text[p] = "\n" /\ text[p + 1] = "\n"}
      lastParagraph == IF at # {} THEN (CHOOSE p \in at : \A q \in at : q <= p) - 1 ELSE -1
  IN  IF lastParagraph > 0 THEN lastParagraph + 2 ELSE Len(text)

\* Mutant of TrimToWordLimit: one word more than the limit is kept.
TrimToWordLimitPlusOne(text, wordLimit) ==
  IF Len(Split(text)) <= wordLimit
    THEN text
    ELSE Join(SubSeq(Split(text), 1, wordLimit + 1))

\* trimToWordLimit(text, wordLimit)
TrimToWordLimit(text, wordLimit) ==
  IF Len(Split(text)) <= wordLimit
    THEN text
    ELSE Join(SubSeq(Split(text), 1, wordLimit))

\* generateChunkId(index)
GenerateChunkId(index, t) == <<"chunk", index, t>>

\* Mutant of OverlapChars: the larger of the two is taken.
OverlapCharsMax(overlap, length) ==
  IF overlap * Unit >= length * 3 THEN overlap * Unit ELSE length * 3

\* Math.min(overlap, chunkContent.length * 0.3), in tenths
OverlapChars(overlap, length) == Min(overlap * Unit, length * 3)

\* Mutant of LoopExits: the cap on the number of chunks is missing.
LoopExitsWithoutCap(currentIndex, length, count) == currentIndex >= length * Unit

\* currentIndex >= cleanText.length || chunks.length > 100, and the test of
\* the while loop.
LoopExits(currentIndex, length, count) ==
  currentIndex >= length * Unit \/ count > ChunkCap

\* The steps of one iteration of the loop of chunkText.  Each takes and gives
\* the pair of chunkEnd and chunkContent the source updates in place.

\* chunkEnd and chunkContent at the top of the iteration.
Candidate(cleanText, maxChars, currentIndex) ==
  LET chunkEnd == Min(currentIndex + maxChars * Unit, Len(cleanText) * Unit)
  IN  [chunkEnd |-> chunkEnd,
       chunkContent |-> Substring(cleanText, currentIndex, chunkEnd)]

\* "Try to preserve sentence boundaries"
PreserveSentences(cleanText, preserveSentences, currentIndex, cand) ==
  IF /\ preserveSentences /\ cand.chunkEnd < Len(cleanText) * Unit
     /\ FindLastSentenceEnd(cand.chunkContent) * 10 > Len(cand.chunkContent) * 7
    THEN [chunkEnd |-> currentIndex + FindLastSentenceEnd(cand.chunkContent) * Unit,
          chunkContent |->
            Substring(cleanText, currentIndex,
                      currentIndex + FindLastSentenceEnd(cand.chunkContent) * Unit)]
    ELSE cand

\* "Try to preserve paragraph boundaries"
PreserveParagraphs(cleanText, preserveParagraphs, currentIndex, cand) ==
  IF /\ preserveParagraphs /\ cand.chunkEnd < Len(cleanText) * Unit
     /\ FindLastParagraphEnd(cand.chunkContent) * 10 > Len(cand.chunkContent) * 6
    THEN [chunkEnd |-> currentIndex + FindLastParagraphEnd(cand.chunkContent) * Unit,
          chunkContent |->
            Substring(cleanText, currentIndex,
                      currentIndex + FindLastParagraphEnd(cand.chunkContent) * Unit)]
    ELSE cand

\* "Check word count limit"
WordLimit(maxWords, currentIndex, cand) ==
  IF Len(Split(cand.chunkContent)) > maxWords
    THEN [chunkEnd |-> currentIndex
                         + Len(TrimToWordLimit(cand.chunkContent, maxWords)) * Unit,
          chunkContent |-> TrimToWordLimit(cand.chunkContent, maxWords)]
    ELSE cand

\* The chunk pushed.  candidateWords (history) is the currentWordCount the
\* word limit was tested on.
TextChunk(chunkCounter, t, currentIndex, cand, currentWordCount) ==
  [id |-> GenerateChunkId(chunkCounter, t),
   content |-> Trim(cand.chunkContent),
   startIndex |-> currentIndex,
   endIndex |-> cand.chunkEnd,
   wordCount |-> Len(Split(Trim(cand.chunkContent))),
   candidateWords |-> currentWordCount]

\* "Calculate next starting position with overlap"
NextIndex(overlap, cand) ==
  cand.chunkEnd - OverlapChars(overlap, Len(cand.chunkContent))

\* Mutant of SingleChunk: the characters are counted as the words.
SingleChunkCountsChars(cleanText, wordCount, t) ==
  [id |-> GenerateChunkId(0, t),
   content |-> cleanText,
   startIndex |-> 0,
   endIndex |-> Len(cleanText) * Unit,
   wordCount |-> Len(cleanText),
   candidateWords |-> wordCount]

\* The only chunk of a text that is small enough.
SingleChunk(cleanText, wordCount, t) ==
  [id |-> GenerateChunkId(0, t),
   content |-> cleanText,
   startIndex |-> 0,
   endIndex |-> Len(cleanText) * Unit,
   wordCount |-> wordCount,
   candidateWords |-> wordCount]

\* chunkText(text, options) up to its loop: an empty cleanText returns no
\* chunk, a small one returns itself as the only chunk.
ChunkText(text, options) ==
  LET cleanText == CleanText(text)
      wordCount == Len(Split(cleanText))
  IN  /\ chunker.pc = "idle"
      /\ chunker' =
           IF cleanText = <<>>
             THEN [pc |-> "returned", text |-> text, options |-> options,
                   cleanText |-> cleanText, currentIndex |-> 0, chunks |-> <<>>]
           ELSE IF wordCount <= options.maxWords /\ Len(cleanText) <= options.maxChars
             THEN [pc |-> "returned", text |-> text, options |-> options,
                   cleanText |-> cleanText, currentIndex |-> 0,
                   chunks |-> <<SingleChunk(cleanText, wordCount, now)>>]
           ELSE [pc |-> "looping", text |-> text, options |-> options,
                 cleanText |-> cleanText, currentIndex |-> 0, chunks |-> <<>>]
      /\ UNCHANGED <<localStorage, memoryCache, now, calls, last, setCalled, older>>
      /\ UNCHANGED <<dedup, pdfKeys, app>>

\* One iteration of the while loop, with the test that ends the loop.  The
\* guard on the number of chunks bounds the model; the loop's own test exits
\* before it.
ChunkLoop ==
  /\ chunker.pc = "looping"
  /\ Len(chunker.chunks) <= ChunkCap
  /\ \E top \in {Candidate(chunker.cleanText, chunker.options.maxChars,
                            chunker.currentIndex)} :
     \E sentence \in {PreserveSentences(chunker.cleanText,
                                         chunker.options.preserveSentences,
                                         chunker.currentIndex, top)} :
     \E paragraph \in {PreserveParagraphs(chunker.cleanText,
                                           chunker.options.preserveParagraphs,
                                           chunker.currentIndex, sentence)} :
     \E cut \in {WordLimit(chunker.options.maxWords, chunker.currentIndex, paragraph)} :
     \E currentIndex \in {NextIndex(chunker.options.overlap, cut)} :
       chunker' = [chunker EXCEPT
                     !.chunks = Append(@, TextChunk(Len(chunker.chunks), now,
                                                    chunker.currentIndex, cut,
                                                    Len(Split(paragraph.chunkContent)))),
                     !.currentIndex = currentIndex,
                     !.pc = IF LoopExits(currentIndex, Len(chunker.cleanText),
                                         Len(chunker.chunks) + 1)
                              THEN "returned" ELSE "looping"]
  /\ UNCHANGED <<localStorage, memoryCache, now, calls, last, setCalled, older>>
  /\ UNCHANGED <<dedup, pdfKeys, app>>

\* The texts of at most n characters.
RECURSIVE TextsUpTo(_)
TextsUpTo(n) ==
  IF n = 0 THEN {<<>>}
  ELSE LET shorter == TextsUpTo(n - 1)
       IN  shorter \cup {Append(s, ch) : s \in {x \in shorter : Len(x) = n - 1}, ch \in Chars}

Texts == TextsUpTo(MaxLen)

ChunkingOptions ==
  [maxWords : MaxWordsOpts, maxChars : MaxCharsOpts, overlap : OverlapOpts,
   preserveParagraphs : BOOLEAN, preserveSentences : BOOLEAN]

\* Calls of chunkText.
NextChunk ==
  \/ /\ chunker.pc = "idle"
     /\ \E text \in Texts, options \in ChunkingOptions : ChunkText(text, options)
  \/ ChunkLoop

SpecChunk == Init /\ [][NextChunk]_vars

ShortTexts == TextsUpTo(MaxShortLen)

\* Calls of chunkText on the shorter texts.
NextChunkFair ==
  \/ /\ chunker.pc = "idle"
     /\ \E text \in ShortTexts, options \in ChunkingOptions : ChunkText(text, options)
  \/ ChunkLoop

\* chunkText runs to its end without interruption: the loop of a call that
\* has started takes its next iteration.
SpecChunkFair == Init /\ [][NextChunkFair]_vars /\ WF_vars(ChunkLoop)

\* Texts with paragraph breaks in them: at most MaxParagraphLen characters,
\* drawn from ParagraphChars.
MaxParagraphLen == 6

ParagraphChars == {"a", "\n"}

\* The texts of at most n characters drawn from chars.
RECURSIVE TextsOver(_, _)
TextsOver(chars, n) ==
  IF n = 0 THEN {<<>>}
  ELSE LET shorter == TextsOver(chars, n - 1)
       IN  shorter \cup {Append(s, ch) : s \in {x \in shorter : Len(x) = n - 1},
                                          ch \in chars}

ParagraphTexts == TextsOver(ParagraphChars, MaxParagraphLen)

ParagraphOptions ==
  [maxWords : {2, 3}, maxChars : {3, 4}, overlap : {0, 1},
   preserveParagraphs : BOOLEAN, preserveSentences : BOOLEAN]

\* Calls of chunkText on the texts with paragraph breaks.
NextParagraph ==
  \/ /\ chunker.pc = "idle"
     /\ \E text \in ParagraphTexts, options \in ParagraphOptions : ChunkText(text, options)
  \/ ChunkLoop

SpecParagraph == Init /\ [][NextParagraph]_vars

\* Texts of several words: at most MaxWordsLen characters, drawn from WordChars.
MaxWordsLen == 7

WordChars == {"a", " "}

WordTexts == TextsOver(WordChars, MaxWordsLen)

WordOptions ==
  [maxWords : {2}, maxChars : {4}, overlap : {0, 1},
   preserveParagraphs : BOOLEAN, preserveSentences : BOOLEAN]

\* Calls of chunkText on the texts of several words.
NextWords ==
  \/ /\ chunker.pc = "idle"
     /\ \E text \in WordTexts, options \in WordOptions : ChunkText(text, options)
  \/ ChunkLoop

SpecWords == Init /\ [][NextWords]_vars

(* --------------------------- deduplicateChunks ------------------------- *)

\* The contents of the chunks given to deduplicateChunks.
Contents ==
  {<<"a">>, <<"A">>, <<"b">>, <<"a", " ", "b">>, <<"a", " ", "c">>, <<>>}

\* deduplicateChunks is given at most MaxChunks chunks.
MaxChunks == 3

\* s.toLowerCase()
ToLowerCase(s) ==
  [p \in 1..Len(s) |-> IF s[p] = "A" THEN "a" ELSE s[p]]

\* new Set(text.toLowerCase().split(/\s+/))
WordSet(text) ==
  {Split(ToLowerCase(text))[k] : k \in 1..Len(Split(ToLowerCase(text)))}

\* calculateSimilarity(text1, text2): intersection.size / union.size, as the
\* pair of the two sizes.
CalculateSimilarity(text1, text2) ==
  [intersection |-> Cardinality(WordSet(text1) \cap WordSet(text2)),
   union |-> Cardinality(WordSet(text1) \cup WordSet(text2))]

\* similarity < 0.7
LessThan70(similarity) == similarity.intersection * 10 < similarity.union * 7

\* The for loop of deduplicateChunks from index i on (i counts from 1 here).
RECURSIVE DeduplicateFrom(_, _, _)
DeduplicateFrom(chunks, i, deduplicated) ==
  IF i > Len(chunks) THEN deduplicated
  ELSE LET current == chunks[i]
           previous == deduplicated[Len(deduplicated)]
       IN  DeduplicateFrom(chunks, i + 1,
             IF LessThan70(CalculateSimilarity(current.content, previous.content))
               THEN Append(deduplicated, current)
               ELSE deduplicated)

\* deduplicateChunks(chunks)
DeduplicateChunks(chunks) ==
  IF Len(chunks) <= 1 THEN chunks ELSE DeduplicateFrom(chunks, 2, <<chunks[1]>>)

\* The sequences of at most n chunks.  The id of a chunk is its place in the
\* sequence; the fields deduplicateChunks does not read are left out.
RECURSIVE ChunksUpTo(_)
ChunksUpTo(n) ==
  IF n = 0 THEN {<<>>}
  ELSE LET shorter == ChunksUpTo(n - 1)
       IN  shorter \cup {Append(s, [id |-> n, content |-> c]) :
                            s \in {x \in shorter : Len(x) = n - 1}, c \in Contents}

\* A call of deduplicateChunks.
Deduplicate(chunks) ==
  /\ dedup.pc = "idle"
  /\ dedup' = [pc |-> "returned", chunks |-> chunks,
               deduplicated |-> DeduplicateChunks(chunks)]
  /\ UNCHANGED <<localStorage, memoryCache, now, calls, last, setCalled, older, chunker>>
  /\ UNCHANGED <<pdfKeys, app>>

NextDedup == \E chunks \in ChunksUpTo(MaxChunks) : Deduplicate(chunks)

SpecDedup == Init /\ [][NextDedup]_vars

(* ----------------------------- createPdfKey ---------------------------- *)

\* File names have at most MaxNameLen characters, drawn from NameChars.
MaxNameLen == 3

NameChars == {"a", "_", "1"}

\* file.size of the files uploaded.
FileSizes == {0, 1, 2, 11, 12}

\* The decimal digit d as a character.
DigitChar(d) == <<"0", "1", "2", "3", "4", "5", "6", "7", "8", "9">>[d + 1]

\* `${fileSize}` of a non-negative integer: its decimal digits.
RECURSIVE NumberToString(_)
NumberToString(n) ==
  IF n < 10 THEN <<DigitChar(n)>>
  ELSE NumberToString(n \div 10) \o <<DigitChar(n % 10)>>

\* Mutant of CreatePdfKey: the name and the size are not separated.
CreatePdfKeyUnseparated(fileName, fileSize) ==
  <<"p", "d", "f", "_">> \o fileName \o NumberToString(fileSize)

\* cacheUtils.createPdfKey(fileName, fileSize): `pdf_${fileName}_${fileSize}`
CreatePdfKey(fileName, fileSize) ==
  <<"p", "d", "f", "_">> \o fileName \o <<"_">> \o NumberToString(fileSize)

\* The file names of at most n characters.
RECURSIVE FileNamesUpTo(_)
FileNamesUpTo(n) ==
  IF n = 0 THEN {<<>>}
  ELSE LET shorter == FileNamesUpTo(n - 1)
       IN  shorter \cup {Append(s, ch) : s \in {x \in shorter : Len(x) = n - 1},
                                          ch \in NameChars}

FileNames == FileNamesUpTo(MaxNameLen)

\* A call of createPdfKey; two calls are made, to be compared.
CallCreatePdfKey(fileName, fileSize) ==
  /\ Len(pdfKeys) <= 1
  /\ pdfKeys' = Append(pdfKeys, [fileName |-> fileName, fileSize |-> fileSize,
                                 key |-> CreatePdfKey(fileName, fileSize)])
  /\ UNCHANGED <<localStorage, memoryCache, now, calls, last, setCalled, older, chunker>>
  /\ UNCHANGED <<dedup, app>>

NextPdfKey ==
  \E fileName \in FileNames, fileSize \in FileSizes : CallCreatePdfKey(fileName, fileSize)

SpecPdfKey == Init /\ [][NextPdfKey]_vars

(* ------------------------------ Index page ----------------------------- *)

\* At most MaxHandlerCalls calls of handleFileUpload and handleGenerateQuiz
\* are made.
MaxHandlerCalls == 3

\* The files the user uploads.
Files == {"report.pdf"}

\* cacheUtils.createPdfKey(file.name, file.size) and
\* cacheUtils.createQuizKey(textHash, quizOptions), as cache keys of the model.
PdfKey(file) == "k1"
QuizKey == "k2"

\* What parsePDF resolves with, and the ModelResponse of generateQuiz.
ParsedPDF == "v1"
ModelResponse == "v2"

\* response.questions / cachedQuiz.questions
Questions(response) == <<"q1">>

\* 24 * 60 * 60 * 1000 and 60 * 60 * 1000, on the clock of the model.
PdfTtl == 2
QuizTtl == 1

\* addMessage(type, content)
AddMessage(messages, type) == Append(messages, type)

\* prev.slice(0, -1)
DropLast(messages) ==
  IF messages = <<>> THEN <<>> ELSE SubSeq(messages, 1, Len(messages) - 1)

\* quizCache.get(key) inside a handler.
QuizCacheGet(key) ==
  /\ localStorage' = GetLS("quizCache", localStorage, memoryCache, now, key)
  /\ memoryCache' = GetMem("quizCache", localStorage, memoryCache, now, key)
  /\ last' = [NoOp EXCEPT !.op = "get", !.c = "quizCache", !.key = key,
                !.ret = GetResult("quizCache", localStorage, memoryCache, now, key),
                !.found = Found("quizCache", localStorage, memoryCache, now, key)]
  /\ older' = OlderAfter("quizCache", memoryCache["quizCache"],
                         memoryCache'["quizCache"], {})
  /\ UNCHANGED setCalled

\* quizCache.set(key, data, customTtl) inside a handler.
QuizCacheSet(key, data, customTtl) ==
  \E throws \in CanThrow("quizCache") :
    /\ localStorage' = SetLS("quizCache", localStorage, now, key, data, customTtl, throws)
    /\ memoryCache' = SetMem("quizCache", memoryCache, now, key, data, customTtl, throws)
    /\ last' = [NoOp EXCEPT !.op = "set", !.c = "quizCache", !.key = key,
                  !.data = data, !.writeFailed = throws,
                  !.positiveTtl = (Ttl("quizCache", customTtl) > 0),
                  !.expiresAt = now + Ttl("quizCache", customTtl)]
    /\ setCalled' = setCalled \cup {<<"quizCache", key>>}
    /\ older' = OlderAfter("quizCache", memoryCache["quizCache"],
                           memoryCache'["quizCache"], {key})

\* handleFileUpload(file) up to its first await, or to its return on a cache
\* hit.  FileUpload is rendered while appState is 'upload' and takes no file
\* while isProcessing.
HandleFileUpload(i, file) ==
  LET cachedPDF == GetResult("quizCache", localStorage, memoryCache, now, PdfKey(file))
  IN  /\ app.appState = "upload" /\ ~app.isProcessing
      /\ app.uploads[i].pc = "idle"
      /\ app.started < MaxHandlerCalls
      /\ QuizCacheGet(PdfKey(file))
      /\ app' =
           IF cachedPDF # Null
             THEN [app EXCEPT !.currentFile = file, !.processingStage = "uploading",
                              !.parsedPDF = cachedPDF, !.progress = 100,
                              !.appState = "chat",
                              !.messages = AddMessage(@, "ai"),
                              !.isProcessing = FALSE,
                              !.started = @ + 1, !.restarted = FALSE]
             ELSE [app EXCEPT !.currentFile = file, !.isProcessing = TRUE,
                              !.appState = "processing",
                              !.messages = AddMessage(@, "user"),
                              !.processingStage = "parsing", !.progress = 30,
                              !.uploads[i] = [pc |-> "parsing", file |-> file],
                              !.started = @ + 1, !.restarted = FALSE]
      /\ UNCHANGED <<now, calls, chunker, dedup, pdfKeys>>

\* parsePDF resolves: handleFileUpload runs on to its second await.
ParsePDFResolves(i) ==
  /\ app.uploads[i].pc = "parsing"
  /\ QuizCacheSet(PdfKey(app.uploads[i].file), ParsedPDF, PdfTtl)
  /\ app' = [app EXCEPT !.parsedPDF = ParsedPDF, !.progress = 60,
                        !.processingStage = "finishing",
                        !.uploads[i].pc = "finishing"]
  /\ UNCHANGED <<now, calls, chunker, dedup, pdfKeys>>

\* parsePDF rejects: the catch and the finally of handleFileUpload.
ParsePDFRejects(i) ==
  /\ app.uploads[i].pc = "parsing"
  /\ app' = [app EXCEPT !.appState = "upload", !.isProcessing = FALSE,
                        !.uploads[i] = [pc |-> "idle", file |-> Null]]
  /\ UNCHANGED <<localStorage, memoryCache, now, calls, last, setCalled, older>>
  /\ UNCHANGED <<chunker, dedup, pdfKeys>>

\* The timer of the second await fires: handleFileUpload runs to its end.
UploadFinishes(i) ==
  /\ app.uploads[i].pc = "finishing"
  /\ app' = [app EXCEPT !.progress = 100, !.appState = "chat",
                        !.messages = AddMessage(@, "ai"),
                        !.isProcessing = FALSE,
                        !.uploads[i] = [pc |-> "idle", file |-> Null]]
  /\ UNCHANGED <<localStorage, memoryCache, now, calls, last, setCalled, older>>
  /\ UNCHANGED <<chunker, dedup, pdfKeys>>

\* handleGenerateQuiz() up to its await, or to its return on a cache hit.
\* The button is rendered while appState is 'chat' and disabled while
\* isProcessing or without a parsedPDF.  The chunks of its call of chunkText
\* are not used.
HandleGenerateQuiz(j) ==
  LET cachedQuiz == GetResult("quizCache", localStorage, memoryCache, now, QuizKey)
  IN  /\ app.appState = "chat" /\ ~app.isProcessing /\ app.parsedPDF # Null
      /\ app.quizzes[j] = "idle"
      /\ app.started < MaxHandlerCalls
      /\ QuizCacheGet(QuizKey)
      /\ app' =
           IF cachedQuiz # Null
             THEN [app EXCEPT !.processingStage = "generating", !.progress = 0,
                              !.quizQuestions = Questions(cachedQuiz),
                              !.appState = "quiz",
                              !.messages = AddMessage(AddMessage(@, "user"), "ai"),
                              !.isProcessing = FALSE,
                              !.started = @ + 1]
             ELSE [app EXCEPT !.isProcessing = TRUE,
                              !.processingStage = "generating", !.progress = 60,
                              !.messages = AddMessage(AddMessage(@, "user"), "typing"),
                              !.quizzes[j] = "generating",
                              !.started = @ + 1]
      /\ UNCHANGED <<now, calls, chunker, dedup, pdfKeys>>

\* generateQuiz resolves with a successful response that has questions.
GenerateQuizSucceeds(j) ==
  /\ app.quizzes[j] = "generating"
  /\ QuizCacheSet(QuizKey, ModelResponse, QuizTtl)
  /\ app' = [app EXCEPT !.quizQuestions = Questions(ModelResponse),
                        !.progress = 100, !.appState = "quiz",
                        !.messages = AddMessage(DropLast(@), "ai"),
                        !.isProcessing = FALSE,
                        !.quizzes[j] = "idle"]
  /\ UNCHANGED <<now, calls, chunker, dedup, pdfKeys>>

\* generateQuiz rejects, or resolves without success or without questions:
\* the catch and the finally of handleGenerateQuiz.
GenerateQuizFails(j) ==
  /\ app.quizzes[j] = "generating"
  /\ app' = [app EXCEPT !.messages = AddMessage(DropLast(@), "ai"),
                        !.appState = "chat", !.isProcessing = FALSE,
                        !.quizzes[j] = "idle"]
  /\ UNCHANGED <<localStorage, memoryCache, now, calls, last, setCalled, older>>
  /\ UNCHANGED <<chunker, dedup, pdfKeys>>

\* handleRestart(): the Start Over button is rendered while appState is not
\* 'upload'.
HandleRestart ==
  /\ app.appState # "upload"
  /\ app' = [app EXCEPT !.appState = "upload", !.currentFile = Null,
                        !.parsedPDF = Null, !.messages = <<>>,
                        !.quizQuestions = <<>>, !.isProcessing = FALSE,
                        !.progress = 0, !.restarted = TRUE]
  /\ UNCHANGED <<localStorage, memoryCache, now, calls, last, setCalled, older>>
  /\ UNCHANGED <<chunker, dedup, pdfKeys>>

\* The user and the awaited promises of the Index page, while time passes.
NextApp ==
  \/ \E i \in UploadIds, file \in Files : HandleFileUpload(i, file)
  \/ \E i \in UploadIds : ParsePDFResolves(i)
  \/ \E i \in UploadIds : ParsePDFRejects(i)
  \/ \E i \in UploadIds : UploadFinishes(i)
  \/ \E j \in QuizIds : HandleGenerateQuiz(j)
  \/ \E j \in QuizIds : GenerateQuizSucceeds(j)
  \/ \E j \in QuizIds : GenerateQuizFails(j)
  \/ HandleRestart
  \/ Tick

SpecApp == Init /\ [][NextApp]_vars

(* ------------------------------- claims -------------------------------- *)

\* The entries of an instance are those of its backing store: the items of
\* localStorage under its names for a localStorage instance, its Map for a
\* memory instance.
Persistent(c) == Options[c].storage = "localStorage"

HasEntry(c, key) ==
  IF Persistent(c)
    THEN localStorage[StorageKey(key)].kind = "json"
    ELSE \E i \in 1..Len(memoryCache[c]) : memoryCache[c][i].key = key

EntryOf(c, key) ==
  IF Persistent(c)
    THEN localStorage[StorageKey(key)]
    ELSE memoryCache[c][CHOOSE i \in 1..Len(memoryCache[c]) : memoryCache[c][i].key = key]

KeysOf(c) == {key \in Keys : HasEntry(c, key)}

\* C1: clear() on one instance leaves the entries of another instance alone:
\* after B.set(k, v) has written and A.clear() follows on another instance
\* sharing localStorage, B.get(k) still returns v.
C1ClearOwnEntriesOnly ==
  [][\A a \in Caches :
       (/\ last.op = "set" /\ ~last.writeFailed /\ last.positiveTtl
        /\ Persistent(last.c) /\ Persistent(a) /\ a # last.c
        /\ Clear(a))
       => GetResult(last.c, localStorage', memoryCache', now', last.key) = last.data]_vars

\* C2: get(k) on a localStorage instance returns a value only if set(k, ...)
\* was called on that instance: what another instance stored is never returned.
C2OwnNamespace ==
  (last.op = "get" /\ Persistent(last.c) /\ last.ret # Null)
  => <<last.c, last.key>> \in setCalled

\* C3: set(k, v) with a positive ttl followed at once by get(k), the clock not
\* past expiresAt, returns v (stated for the payloads JSON represents).
C3RoundTrip ==
  (/\ last.op = "get" /\ last.afterSet /\ last.positiveTtl
   /\ now <= last.expiresAt /\ JSONValue(last.data) = last.data)
  => last.ret = last.data

\* C4: get(k) of a stored entry at a time after its expiresAt returns absent
\* and removes the entry from the backing store, so getStats counts one entry
\* less; at a time up to expiresAt it returns the payload and removes nothing.
C4LazyEviction ==
  [][\A c \in Caches, key \in Keys :
       (/\ last'.op = "get" /\ last'.c = c /\ last'.key = key
        /\ Get(c, key) /\ HasEntry(c, key))
       => IF now > EntryOf(c, key).expiresAt
            THEN /\ last'.ret = Null
                 /\ ~(HasEntry(c, key))'
                 /\ GetStats(c, localStorage', memoryCache')
                      = GetStats(c, localStorage, memoryCache) - 1
            ELSE /\ last'.ret = EntryOf(c, key).data
                 /\ localStorage' = localStorage
                 /\ memoryCache' = memoryCache]_vars

\* C4 witness: on a localStorage instance, the get that came next after a set
\* with a positive ttl, once its expiresAt had passed, returned absent and
\* the entry is gone.
C4Witness ==
  /\ last.op = "get" /\ last.afterSet /\ last.positiveTtl /\ ~last.writeFailed
  /\ last.found = "expired" /\ last.ret = Null
  /\ Persistent(last.c) /\ ~HasEntry(last.c, last.key)

\* C5: on a memory instance holding maxEntries entries, set of a key that is
\* not present removes exactly one entry, the one that has been in the cache
\* the longest, and leaves maxEntries entries.
C5InsertionOrderEviction ==
  [][\A c \in Caches, key \in Keys, data \in Payloads, t \in CustomTtls :
       (/\ Set(c, key, data, t) /\ ~Persistent(c)
        /\ Len(memoryCache[c]) = Options[c].maxEntries
        /\ key \notin MapKeySet(memoryCache[c]))
       => /\ Len(memoryCache'[c]) = Options[c].maxEntries
          /\ \E a \in MapKeySet(memoryCache[c]) :
               /\ MapKeySet(memoryCache[c]) \ MapKeySet(memoryCache'[c]) = {a}
               /\ \A b \in MapKeySet(memoryCache[c]) \ {a} : <<a, b>> \in older[c]]_vars

\* C6: set of a key that is already present, on an instance holding
\* maxEntries entries, overwrites that entry and evicts nothing: the stored
\* keys are the same before and after.
C6NoEvictionOnOverwrite ==
  [][\A c \in Caches, key \in Keys, data \in Payloads, t \in CustomTtls :
       (/\ Set(c, key, data, t)
        /\ Cardinality(KeysOf(c)) = Options[c].maxEntries
        /\ HasEntry(c, key))
       => (KeysOf(c))' = KeysOf(c)]_vars

\* C7: an instance never stores more than maxEntries entries, on either backend.
C7BoundedSize ==
  \A c \in Caches : Cardinality(KeysOf(c)) <= Options[c].maxEntries

\* C8: getOrSet for a key that holds an unexpired entry returns the stored
\* payload, does not invoke the generator and changes no entry.
C8HitSkipsGenerator ==
  [][\A i \in CallIds, c \in Caches, key \in Keys, t \in CustomTtls :
       (/\ calls[i].pc # "awaiting" /\ calls'[i].c = c /\ calls'[i].key = key
        /\ GetOrSetCall(i, c, key, t)
        /\ HasEntry(c, key) /\ now <= EntryOf(c, key).expiresAt)
       => /\ calls'[i].pc = "returned"
          /\ calls'[i].invoked = 0
          /\ calls'[i].ret = EntryOf(c, key).data
          /\ localStorage' = localStorage
          /\ memoryCache' = memoryCache]_vars

\* The key has no entry, or an expired one.
Absent(c, key) == ~HasEntry(c, key) \/ now > EntryOf(c, key).expiresAt

\* C9: getOrSet for an absent key invokes the generator once and leaves no
\* entry for the key and every other entry as it was; when the generator
\* fails, getOrSet fails with the generator's error, without a second
\* invocation and without writing anything.
C9GeneratorFailure ==
  [][\A i \in CallIds :
       /\ (calls[i].pc # "awaiting" /\ calls'[i].pc \in {"awaiting", "returned"})
          => \A c \in Caches, key \in Keys :
               (/\ calls'[i].c = c /\ calls'[i].key = key /\ Absent(c, key)
                /\ \E t \in CustomTtls : GetOrSetCall(i, c, key, t))
               => /\ calls'[i].pc = "awaiting" /\ calls'[i].invoked = 1
                  /\ ~(HasEntry(c, key))'
                  /\ \A sk \in StorageKeys \ {StorageKey(key)} :
                       localStorage'[sk] = localStorage[sk]
                  /\ \A d \in Caches \ {c} : memoryCache'[d] = memoryCache[d]
                  /\ \A j \in 1..Len(memoryCache'[c]) :
                       \E h \in 1..Len(memoryCache[c]) :
                         memoryCache'[c][j] = memoryCache[c][h]
                  /\ MapKeySet(memoryCache[c]) \ MapKeySet(memoryCache'[c]) \subseteq {key}
       /\ (calls[i].pc = "awaiting" /\ calls'[i].pc # "awaiting" /\ GeneratorReject(i))
          => /\ calls'[i].pc = "rejected"
             /\ calls'[i].ret = GeneratorError
             /\ calls'[i].invoked = 1
             /\ localStorage' = localStorage
             /\ memoryCache' = memoryCache]_vars

\* C9 witness: a getOrSet call failed with the generator's error after one
\* invocation, and its key has no entry.
C9Witness ==
  \E i \in CallIds :
    /\ calls[i].pc = "rejected" /\ calls[i].ret = GeneratorError
    /\ calls[i].invoked = 1 /\ ~HasEntry(calls[i].c, calls[i].key)

\* C10: of two getOrSet calls that both missed the same key before either
\* generator completed, both invoked their generator, each returns its own
\* generator's result, and when the second completes the cache holds its
\* result: the instance has stored it, and its backing store holds no other
\* payload for the key.
C10LastWriterWins ==
  [][\A i \in CallIds, data \in Payloads \cup {Null} :
       (/\ calls[i].pc = "awaiting" /\ calls'[i].pc = "resolved"
        /\ GeneratorResolve(i, data)
        /\ \E j \in CallIds \ {i} :
             /\ calls[j].pc = "resolved" /\ calls[j].racing
             /\ calls[j].c = calls[i].c /\ calls[j].key = calls[i].key)
       => /\ \A j \in CallIds : calls'[j].invoked = 1
          /\ calls'[i].ret = data
          /\ \/ (HasEntry(calls[i].c, calls[i].key))'
             \/ \E h \in 1..Len(memoryCache'[calls[i].c]) :
                  /\ memoryCache'[calls[i].c][h].key = calls[i].key
                  /\ memoryCache'[calls[i].c][h].data = data
          /\ (HasEntry(calls[i].c, calls[i].key))'
               => (EntryOf(calls[i].c, calls[i].key))'.data = JSONValue(data)]_vars

\* The entries of a Map, as a set.
MapEntries(m) == {m[h] : h \in 1..Len(m)}

\* C11: what a sweep removes is an entry whose expiresAt is strictly before
\* the time of the sweep, or a stored record that does not parse; every stored
\* entry whose expiresAt is at or after that time is still there after the
\* sweep, and the sweep changes nothing else.
C11SweepSparesLive ==
  [][\A c \in Caches :
       (last'.op = "cleanup" /\ last'.c = c /\ Cleanup(c))
       => /\ \A sk \in StorageKeys :
               localStorage'[sk] # localStorage[sk]
                 => /\ localStorage'[sk] = NoItem
                    /\ \/ localStorage[sk].kind = "corrupt"
                       \/ /\ localStorage[sk].kind = "json"
                          /\ localStorage[sk].expiresAt < now
          /\ \A d \in Caches :
               /\ MapEntries(memoryCache'[d]) \subseteq MapEntries(memoryCache[d])
               /\ \A e \in MapEntries(memoryCache[d]) \ MapEntries(memoryCache'[d]) :
                    e.expiresAt < now
               /\ \A e \in MapEntries(memoryCache[d]) :
                    e.expiresAt >= now => e \in MapEntries(memoryCache'[d])]_vars

\* C11 witness: a sweep removed an entry and left another one in the store.
C11Witness ==
  last.op = "cleanup" /\ last.swept /\ last.spared

\* C12: right after a sweep of an instance, the instance holds no entry whose
\* expiresAt is before the time of the sweep, neither in localStorage nor in
\* its own Map.
C12SweepRemovesAllExpired ==
  [][\A c \in Caches :
       (last'.op = "cleanup" /\ last'.c = c /\ Cleanup(c))
       => /\ Persistent(c)
               => \A key \in Keys :
                    ~(/\ localStorage'[StorageKey(key)].kind = "json"
                      /\ localStorage'[StorageKey(key)].expiresAt < now)
          /\ \A e \in MapEntries(memoryCache'[c]) : ~(e.expiresAt < now)]_vars

\* C13: on a localStorage instance, a set whose setItem threw has returned
\* and its entry is in the instance's Map; a get whose getItem threw, or that
\* met a record that does not parse, has returned absent.
C13StorageFailuresContained ==
  /\ (last.op = "set" /\ last.writeFailed)
       => /\ MapHas(memoryCache[last.c], last.key)
          /\ MapGet(memoryCache[last.c], last.key).data = last.data
          /\ MapGet(memoryCache[last.c], last.key).expiresAt = last.expiresAt
  /\ (last.op = "get" /\ last.found \in {"corrupt", "readThrew"})
       => last.ret = Null

\* C13 witness: a set whose setItem threw has returned, its entry in the Map
\* and the item in localStorage as it was, here one that does not parse.
C13Witness ==
  /\ last.op = "set" /\ last.writeFailed /\ Persistent(last.c)
  /\ MapHas(memoryCache[last.c], last.key)
  /\ localStorage[StorageKey(last.key)] = CorruptItem

\* C14: on a localStorage instance, the get that follows at once a set(k, v)
\* whose setItem threw, before v expires, returns v.
C14FallbackServed ==
  (/\ last.op = "get" /\ last.afterSet /\ last.writeFailed
   /\ Persistent(last.c) /\ last.positiveTtl /\ now <= last.expiresAt)
  => last.ret = last.data

\* C15: every stored entry has expiresAt >= timestamp.
C15ExpiresAfterTimestamp ==
  /\ \A sk \in StorageKeys :
       localStorage[sk].kind = "json"
         => localStorage[sk].expiresAt >= localStorage[sk].timestamp
  /\ \A c \in Caches : \A e \in MapEntries(memoryCache[c]) :
       e.expiresAt >= e.timestamp

\* C16: for a non-empty cleanText, maxChars >= 1 and overlap >= 0, the chunks
\* chunkText returns cover the whole cleanText: the first chunk starts at 0
\* and the largest endIndex is the length of cleanText (stated for the calls
\* with maxWords >= 1).
C16Coverage ==
  (/\ chunker.pc = "returned" /\ chunker.cleanText # <<>>
   /\ chunker.options.maxChars >= 1 /\ chunker.options.overlap >= 0
   /\ chunker.options.maxWords >= 1)
  => /\ Len(chunker.chunks) >= 1
     /\ chunker.chunks[1].startIndex = 0
     /\ \E i \in 1..Len(chunker.chunks) :
          chunker.chunks[i].endIndex = Len(chunker.cleanText) * Unit
     /\ \A i \in 1..Len(chunker.chunks) :
          chunker.chunks[i].endIndex <= Len(chunker.cleanText) * Unit

\* C17: chunkText returns at most as many chunks as the cap (stated for the
\* calls with maxWords >= 1, maxChars >= 1 and overlap >= 0).
C17ChunkCap ==
  (/\ chunker.pc = "returned"
   /\ chunker.options.maxWords >= 1 /\ chunker.options.maxChars >= 1
   /\ chunker.options.overlap >= 0)
  => Len(chunker.chunks) <= ChunkCap

\* C18: every call of chunkText that enters its loop returns.
C18Termination ==
  (chunker.pc = "looping") ~> (chunker.pc = "returned")

\* C18 witness: a call with overlap >= maxChars whose cursor stopped short of
\* the end of the text has returned, ended by the cap.
C18Witness ==
  /\ chunker.pc = "returned"
  /\ chunker.options.maxChars >= 1 /\ chunker.options.maxWords >= 1
  /\ chunker.options.overlap >= chunker.options.maxChars
  /\ Len(chunker.chunks) > ChunkCap
  /\ chunker.currentIndex < Len(chunker.cleanText) * Unit

\* C19: with overlap >= 0, each chunk after the first starts at or before the
\* end of the chunk before it, and at most overlap characters before it.
C19NoGapsBoundedOverlap ==
  chunker.options # <<>> /\ chunker.options.overlap >= 0
  => \A i \in 1..(Len(chunker.chunks) - 1) :
       /\ chunker.chunks[i + 1].startIndex <= chunker.chunks[i].endIndex
       /\ chunker.chunks[i + 1].startIndex
            >= chunker.chunks[i].endIndex - chunker.options.overlap * Unit

\* C19 witness: a returned call with a positive overlap in which a chunk
\* starts exactly overlap characters before the end of the chunk before it.
C19Witness ==
  /\ chunker.pc = "returned" /\ chunker.options.overlap > 0
  /\ \E i \in 1..(Len(chunker.chunks) - 1) :
       /\ chunker.chunks[i].endIndex > chunker.chunks[i].startIndex
       /\ chunker.chunks[i + 1].startIndex
            = chunker.chunks[i].endIndex - chunker.options.overlap * Unit

\* C20: with maxWords >= 1, every chunk has wordCount <= maxWords.
C20WordLimit ==
  chunker.options # <<>> /\ chunker.options.maxWords >= 1
  => \A i \in 1..Len(chunker.chunks) :
       chunker.chunks[i].wordCount <= chunker.options.maxWords

\* C20 witness: a returned call with maxWords >= 1 in which a candidate chunk
\* of more than maxWords words was cut to maxWords words.
C20Witness ==
  /\ chunker.pc = "returned" /\ chunker.options.maxWords >= 1
  /\ chunker.options.overlap >= 0
  /\ \E i \in 1..Len(chunker.chunks) :
       /\ chunker.chunks[i].candidateWords > chunker.options.maxWords
       /\ chunker.chunks[i].content # <<>>
       /\ chunker.chunks[i].wordCount = chunker.options.maxWords

\* The number of words of a normalized text: its maximal runs of characters
\* other than whitespace.
Words(s) ==
  Cardinality({p \in 1..Len(s) : ~IsSpace(s[p]) /\ (p = 1 \/ IsSpace(s[p - 1]))})

\* C21: a call whose cleanText is non-empty and has at most maxWords words
\* and at most maxChars characters returns exactly one chunk: its content is
\* cleanText, its startIndex 0, its endIndex the length of cleanText and its
\* wordCount the number of words of cleanText.
C21SingleChunk ==
  (/\ chunker.pc = "returned" /\ chunker.cleanText # <<>>
   /\ Words(chunker.cleanText) <= chunker.options.maxWords
   /\ Len(chunker.cleanText) <= chunker.options.maxChars)
  => /\ Len(chunker.chunks) = 1
     /\ chunker.chunks[1].content = chunker.cleanText
     /\ chunker.chunks[1].startIndex = 0
     /\ chunker.chunks[1].endIndex = Len(chunker.cleanText) * Unit
     /\ chunker.chunks[1].wordCount = Words(chunker.cleanText)

\* C21 witness: a text of two words that normalization changed was returned
\* as the only chunk, under a positive overlap.
C21Witness ==
  /\ chunker.pc = "returned" /\ chunker.cleanText # chunker.text
  /\ Words(chunker.cleanText) = 2 /\ chunker.options.maxWords = 2
  /\ Len(chunker.cleanText) <= chunker.options.maxChars
  /\ chunker.options.overlap > 0
  /\ Len(chunker.chunks) = 1 /\ chunker.chunks[1].content = chunker.cleanText

\* C22: a call on a text that is empty or all whitespace returns no chunk,
\* whatever the options.
C22EmptyInput ==
  (/\ chunker.pc # "idle"
   /\ \A p \in 1..Len(chunker.text) : IsSpace(chunker.text[p]))
  => chunker.pc = "returned" /\ chunker.chunks = <<>>

\* C22 witness: a call on a text of nothing but whitespace, with options under
\* which a text of one space would be small enough, has returned no chunk.
C22Witness ==
  /\ chunker.pc = "returned" /\ chunker.text # <<>>
  /\ \A p \in 1..Len(chunker.text) : IsSpace(chunker.text[p])
  /\ chunker.options.maxWords = 2 /\ chunker.options.maxChars >= 1
  /\ chunker.chunks = <<>>

\* C23: of two chunks given to deduplicateChunks, at any places of the
\* sequence, that have the same content, at most one is in what it returns
\* (stated for the sequences in which no chunk has an empty content).
C23AtMostOneSurvivor ==
  (/\ dedup.pc = "returned"
   /\ \A k \in 1..Len(dedup.chunks) : dedup.chunks[k].content # <<>>)
  => \A i, j \in 1..Len(dedup.chunks) :
       (i < j /\ dedup.chunks[i].content = dedup.chunks[j].content)
       => ~(/\ \E h \in 1..Len(dedup.deduplicated) : dedup.deduplicated[h] = dedup.chunks[i]
            /\ \E h \in 1..Len(dedup.deduplicated) : dedup.deduplicated[h] = dedup.chunks[j])

\* C24: two calls of createPdfKey return the same key if and only if they
\* were given the same file name and the same file size.
C24PdfKeyInjective ==
  \A i, j \in 1..Len(pdfKeys) :
    pdfKeys[i].key = pdfKeys[j].key
      <=> (/\ pdfKeys[i].fileName = pdfKeys[j].fileName
           /\ pdfKeys[i].fileSize = pdfKeys[j].fileSize)

\* C24 witness: two calls whose names differ, one name with an underscore and
\* a digit in it, and whose name followed by the size reads the same, have
\* been given different keys.
C24Witness ==
  /\ Len(pdfKeys) = 2
  /\ pdfKeys[1].fileName # pdfKeys[2].fileName
  /\ \E p \in 1..Len(pdfKeys[1].fileName) : pdfKeys[1].fileName[p] = "_"
  /\ \E p \in 1..Len(pdfKeys[1].fileName) : pdfKeys[1].fileName[p] = "1"
  /\ pdfKeys[1].fileName \o NumberToString(pdfKeys[1].fileSize)
       = pdfKeys[2].fileName \o NumberToString(pdfKeys[2].fileSize)
  /\ pdfKeys[1].key # pdfKeys[2].key

\* The call went through the loop: its cleanText was not small enough.
MultiChunkPath ==
  /\ chunker.cleanText # <<>>
  /\ \/ Words(chunker.cleanText) > chunker.options.maxWords
     \/ Len(chunker.cleanText) > chunker.options.maxChars

\* C25: in a call that went through the loop, the chunk whose endIndex is the
\* length of cleanText is the last chunk returned: no chunk is emitted after
\* it, so there is only one (stated for the calls with maxWords >= 2,
\* maxChars >= 1 and overlap >= 0, and leaving aside the calls the cap ends
\* before the end of the text).
C25StopsAtTextEnd ==
  (/\ chunker.pc = "returned" /\ MultiChunkPath
   /\ chunker.options.maxWords >= 2 /\ chunker.options.maxChars >= 1
   /\ chunker.options.overlap >= 0)
  => \A i \in 1..Len(chunker.chunks) :
       chunker.chunks[i].endIndex = Len(chunker.cleanText) * Unit
         => i = Len(chunker.chunks)

\* C26: every iteration of the loop leaves the cursor strictly greater than
\* it found it: each chunk starts after the chunk before it, and the cursor
\* is past the start of the last chunk (stated for the calls with
\* maxWords >= 1, maxChars >= 1 and overlap >= 0).
C26CursorIncreases ==
  (/\ chunker.pc \in {"looping", "returned"} /\ MultiChunkPath
   /\ chunker.options.maxWords >= 1 /\ chunker.options.maxChars >= 1
   /\ chunker.options.overlap >= 0)
  => /\ \A i \in 1..(Len(chunker.chunks) - 1) :
          chunker.chunks[i + 1].startIndex > chunker.chunks[i].startIndex
     /\ chunker.chunks # <<>>
          => chunker.currentIndex > chunker.chunks[Len(chunker.chunks)].startIndex

\* For each character of text.replace(/\s+/g, ' '), whether it is the space
\* that stands for a run of whitespace with a paragraph break (two newlines
\* in a row) in it.
RECURSIVE BreakMarks(_)
BreakMarks(s) ==
  IF s = <<>> THEN <<>>
  ELSE IF IsSpace(Head(s))
    THEN LET run == Len(s) - Len(DropLeadingSpace(s))
         IN  <<\E p \in 1..(run - 1) : s[p] = "\n" /\ s[p + 1] = "\n">>
               \o BreakMarks(DropLeadingSpace(s))
  ELSE <<FALSE>> \o BreakMarks(Tail(s))

\* The offsets in cleanText just past a paragraph break of the text.
ParagraphEnds(text) ==
  LET lead == IF text # <<>> /\ IsSpace(Head(text)) THEN 1 ELSE 0
  IN  {p \in 1..(Len(Trim(CollapseSpace(text))) - 1) : BreakMarks(text)[p + lead]}

\* C27: with preserveParagraphs, a chunk whose candidate (maxChars characters
\* from its start) stops before the end of the text and holds a paragraph
\* break of the text past 60% of its length ends at the last such break
\* (stated for the calls without preserveSentences and the chunks the word
\* limit does not cut; the chunk may end on either side of the space that
\* stands for the break).
C27ParagraphSnapping ==
  (/\ chunker.pc = "returned"
   /\ chunker.options.preserveParagraphs /\ ~chunker.options.preserveSentences)
  => \A i \in 1..Len(chunker.chunks) :
       LET start == chunker.chunks[i].startIndex
           candidateEnd == start + chunker.options.maxChars * Unit
           breaks == {p \in ParagraphEnds(chunker.text) :
                        /\ p * Unit <= candidateEnd
                        /\ (p * Unit - start) * 10 > (candidateEnd - start) * 6}
       IN  (/\ candidateEnd < Len(chunker.cleanText) * Unit
            /\ chunker.chunks[i].candidateWords <= chunker.options.maxWords
            /\ breaks # {})
           => \E p \in breaks :
                /\ \A q \in breaks : q <= p
                /\ chunker.chunks[i].endIndex \in {p * Unit, (p - 1) * Unit}

\* C28: the startIndex and endIndex of every chunk returned are whole
\* character offsets with 0 <= startIndex < endIndex <= the length of
\* cleanText, and the content is the trimmed piece of cleanText between them
\* (stated for the calls with maxWords >= 2, maxChars >= 1 and overlap >= 0).
C28CharacterOffsets ==
  (/\ chunker.pc = "returned"
   /\ chunker.options.maxWords >= 2 /\ chunker.options.maxChars >= 1
   /\ chunker.options.overlap >= 0)
  => \A i \in 1..Len(chunker.chunks) :
       /\ chunker.chunks[i].startIndex % Unit = 0
       /\ chunker.chunks[i].endIndex % Unit = 0
       /\ 0 <= chunker.chunks[i].startIndex
       /\ chunker.chunks[i].startIndex < chunker.chunks[i].endIndex
       /\ chunker.chunks[i].endIndex <= Len(chunker.cleanText) * Unit
       /\ chunker.chunks[i].content
            = Trim(SubSeq(chunker.cleanText,
                          chunker.chunks[i].startIndex \div Unit + 1,
                          chunker.chunks[i].endIndex \div Unit))

\* C29: with maxWords >= 1, the chunk emitted for a candidate of more than
\* maxWords words has wordCount exactly maxWords, wherever the candidate
\* starts.
C29ExactTruncation ==
  chunker.options # <<>> /\ chunker.options.maxWords >= 1
  => \A i \in 1..Len(chunker.chunks) :
       chunker.chunks[i].candidateWords > chunker.options.maxWords
         => chunker.chunks[i].wordCount = chunker.options.maxWords

\* C30: once handleRestart has run, and until handleFileUpload is called
\* again, appState is 'upload' and parsedPDF, messages and quizQuestions are
\* empty, whatever calls of handleFileUpload and handleGenerateQuiz were
\* suspended when it ran.
C30RestartIsFinal ==
  app.restarted
  => /\ app.appState = "upload"
     /\ app.parsedPDF = Null
     /\ app.messages = <<>>
     /\ app.quizQuestions = <<>>

====
